---- MODULE Spec2Model ----
(***************************************************************************)
(* Fair batch scheduling of one replica: the Virtual Token Counter (VTC)   *)
(* scheduler (vtc_replica_scheduler.py) and its chunked-prefill variant    *)
(* (vtc_sarathi_replica_scheduler.py).  One action per entry point:        *)
(* add_request, get_next_batch (reached through on_schedule) and           *)
(* on_batch_end.  Counters are floats in the code; here they are integers  *)
(* in units of 1/CounterScale, which is exact for the damping factors used.*)
(***************************************************************************)
EXTENDS Integers, Sequences, FiniteSets, TLC

VARIABLES
    cfg,                  \* the replica scheduler's configuration (fixed at construction)
    req,                  \* the Request entities, indexed by request id
    request_queue,        \* self._request_queue: ids, in list order
    preempted_requests,   \* self._preempted_requests: ids, in list order
    allocation_map,       \* self._allocation_map: id -> number of blocks
    num_allocated_blocks, \* self._num_allocated_blocks
    virtual_counters,     \* self._virtual_counters: client_id -> counter
    running,              \* batches returned by get_next_batch and not yet ended
    err,                  \* "none", or the exception that escaped from the last call
    last                  \* what the last call did (observation only)

vars == <<cfg, req, request_queue, preempted_requests, allocation_map,
          num_allocated_blocks, virtual_counters, running, err, last>>

----------------------------------------------------------------------------
\* Bounds of the model.
MaxReq == 3
MaxPrefill == 2
MaxDecode == 2

\* The request generator assigns client 0 or client 1.
NumClients == 2

\* Configuration values (read-only inputs of the scheduler).
MaxTokensInBatch == 3
BlockSize == 1
WatermarkBlocks == 0
ClientZeroDamping == 1
ClientOneDamping == 2
PrefillCostFactor == 1
DecodeCostFactor == 2
CounterScale == 2

Clients == 0 .. (NumClients - 1)

\* The replica scheduler configurations that are checked: the scheduler type,
\* batch_size_cap, num_stages, num_blocks and (chunked scheduler) chunk_size.
Config(s, cap, stages, blocks, chunk) ==
    [sched |-> s, batch_size_cap |-> cap, num_stages |-> stages,
     num_blocks |-> blocks, chunk_size |-> chunk]

Configs ==
    { Config("vtc", 1, 1, 4, 0), Config("vtc", 3, 1, 4, 0), Config("vtc", 2, 2, 4, 0),
      Config("sarathi", 1, 1, 4, 2), Config("sarathi", 3, 1, 4, 3),
      Config("sarathi", 2, 1, 3, 1), Config("sarathi", 2, 2, 4, 2) }

\* self._max_micro_batch_size = batch_size_cap // num_stages
max_micro_batch_size == cfg.batch_size_cap \div cfg.num_stages

----------------------------------------------------------------------------
\* Helpers on sequences.
Max2(a, b) == IF a >= b THEN a ELSE b
Min2(a, b) == IF a <= b THEN a ELSE b

RECURSIVE SeqMax(_)
SeqMax(s) == IF s = <<>> THEN 0 ELSE Max2(Head(s), SeqMax(Tail(s)))


SeqSet(s) == { s[i] : i \in 1 .. Len(s) }

RemoveAt(s, i) == SubSeq(s, 1, i - 1) \o SubSeq(s, i + 1, Len(s))

CeilDiv(a, b) == (a + b - 1) \div b

\* Python's sorted()/list.sort(): a stable sort of s by the integer key k[x].
RECURSIVE InsertSorted(_, _, _)
InsertSorted(s, x, k) ==
    IF s = <<>> THEN <<x>>
    ELSE IF k[Head(s)] <= k[x] THEN <<Head(s)>> \o InsertSorted(Tail(s), x, k)
    ELSE <<x>> \o s

RECURSIVE SortByKey(_, _)
SortByKey(s, k) ==
    IF s = <<>> THEN <<>>
    ELSE InsertSorted(SortByKey(SubSeq(s, 1, Len(s) - 1), k), s[Len(s)], k)

\* An entry of the observation log of one call.
Ev(e, i, f, n) == [ev |-> e, id |-> i, flag |-> f, n |-> n]

NoBatch == [requests |-> <<>>, num_tokens |-> <<>>, path |-> "none"]

----------------------------------------------------------------------------
\* The Request entity.
total_tokens(r) == r.num_prefill_tokens + r.num_decode_tokens

\* Request.on_batch_end(time, num_tokens_processed)
RequestOnBatchEnd(r, n) ==
    LET p1 == r.num_processed_tokens + n
        done_prefill == p1 = r.num_prefill_tokens
        p2 == IF done_prefill THEN p1 + 1 ELSE p1
    IN [r EXCEPT !.num_processed_tokens = p2,
                 !.is_prefill_complete = @ \/ done_prefill,
                 !.completed = (p2 = total_tokens(r))]

\* Request.restart()
RequestRestart(r) ==
    [r EXCEPT !.num_prefill_tokens = r.num_processed_tokens,
              !.num_decode_tokens = total_tokens(r) - r.num_processed_tokens,
              !.num_processed_tokens = 0,
              !.is_prefill_complete = FALSE,
              !.completed = FALSE]

\* Request.get_prefill_token_service_cost(n), Request.get_decode_token_service_cost()
PrefillTokenServiceCost(n) == n * PrefillCostFactor
DecodeTokenServiceCost == DecodeCostFactor

----------------------------------------------------------------------------
\* The virtual counter ledger.

\* self._virtual_counters.get(client_id, 0.0)
CounterOf(vc, c) == IF c \in DOMAIN vc THEN vc[c] ELSE 0

MinCounter(vc) == CHOOSE m \in { vc[c] : c \in DOMAIN vc } :
                      \A c \in DOMAIN vc : m <= vc[c]

\* (variant) the early return for a tracked client is missing
UpdateCounterOnArrivalNoReturn(vc, c) ==
    IF DOMAIN vc # {} THEN [d \in DOMAIN vc \cup {c} |-> IF d = c THEN MinCounter(vc) ELSE vc[d]]
    ELSE (c :> 0) @@ vc

\* (variant) a new client always starts at 0.0
UpdateCounterOnArrivalZero(vc, c) ==
    IF c \in DOMAIN vc THEN vc ELSE (c :> 0) @@ vc

\* _update_counter_on_arrival
UpdateCounterOnArrival(vc, c) ==
    IF c \in DOMAIN vc THEN vc
    ELSE IF DOMAIN vc # {} THEN (c :> MinCounter(vc)) @@ vc
    ELSE (c :> 0) @@ vc

\* the damping factor the chunked scheduler picks for a client
Damping(c) == IF c = 0 THEN ClientZeroDamping ELSE ClientOneDamping

\* service_cost of one (request, num_tokens) pair: non-chunked scheduler
VTCCost(r, n) ==
    LET tokens_before_batch == r.num_processed_tokens - n
    IN IF tokens_before_batch < r.num_prefill_tokens
       THEN PrefillTokenServiceCost(n)
       ELSE n * DecodeTokenServiceCost

\* what the non-chunked scheduler adds to client_service for the pair
VTCServiceCost(r, n) == VTCCost(r, n) * CounterScale

\* cost of one (request, num_tokens) pair: chunked scheduler
SarathiCost(r, n) ==
    LET tokens_before == r.num_processed_tokens - n
        prefill_tokens_remaining == Max2(r.num_prefill_tokens - tokens_before, 0)
        prefill_tokens == Min2(prefill_tokens_remaining, n)
        decode_tokens == n - prefill_tokens
    IN PrefillTokenServiceCost(prefill_tokens) + DecodeTokenServiceCost * decode_tokens

\* what the chunked scheduler adds to client_service for the pair: cost / damping
SarathiServiceCost(r, n) ==
    (SarathiCost(r, n) * CounterScale) \div Damping(r.client_id)

ServiceCost(rq, id, n) ==
    IF cfg.sched = "vtc" THEN VTCServiceCost(rq[id], n)
    ELSE SarathiServiceCost(rq[id], n)

\* client_service accumulated over the batch, then added to the counters
RECURSIVE ClientService(_, _, _, _)
ClientService(rq, ids, toks, c) ==
    IF ids = <<>> THEN 0
    ELSE (IF rq[Head(ids)].client_id = c THEN ServiceCost(rq, Head(ids), Head(toks)) ELSE 0)
         + ClientService(rq, Tail(ids), Tail(toks), c)

\* _update_counter_on_batch_completion
UpdateCounterOnBatchCompletion(vc, rq, b) ==
    LET served == { rq[b.requests[i]].client_id : i \in 1 .. Len(b.requests) }
    IN [c \in DOMAIN vc \cup served |->
           IF c \in served
           THEN CounterOf(vc, c) + ClientService(rq, b.requests, b.num_tokens, c)
           ELSE vc[c]]

----------------------------------------------------------------------------
\* The allocation controller (block accounting of the base replica scheduler).
\* A scheduling state st carries queue, preempted, alloc, nblocks, req, the
\* batch under construction and the error flag.

\* _can_allocate_request
CanAllocateRequest(st, id) ==
    IF id \notin DOMAIN st.alloc
    THEN cfg.num_blocks - st.nblocks - CeilDiv(st.req[id].num_prefill_tokens, BlockSize)
             >= WatermarkBlocks
    ELSE cfg.num_blocks - st.nblocks >= 1

\* allocate(request_id, num_blocks)
Allocate(st, id, nb) ==
    [st EXCEPT !.nblocks = @ + nb,
               !.alloc = IF id \in DOMAIN @ THEN [@ EXCEPT ![id] = @ + nb]
                         ELSE (id :> nb) @@ @,
               !.err = IF st.nblocks + nb > cfg.num_blocks THEN "AssertionError" ELSE @]

\* _allocate_request
AllocateRequest(st, id) ==
    IF id \notin DOMAIN st.alloc
    THEN Allocate(st, id, CeilDiv(st.req[id].num_prefill_tokens, BlockSize))
    ELSE LET num_tokens_reserved == st.alloc[id] * BlockSize
             num_tokens_required ==
                 Max2(0, st.req[id].num_processed_tokens - num_tokens_reserved)
         IN IF num_tokens_required > 1 THEN [st EXCEPT !.err = "AssertionError"]
            ELSE IF num_tokens_required = 0 THEN st
            ELSE Allocate(st, id, 1)

\* (variant) the request-count test is off by one
MicroBatchFullOffByOne(st) == Len(st.requests) = max_micro_batch_size + 1

\* len(requests) == self._max_micro_batch_size
MicroBatchFull(st) == Len(st.requests) = max_micro_batch_size

\* (variant) the cap test is a strict comparison
AllocationCapExceeded(st) == Cardinality(DOMAIN st.alloc) > cfg.batch_size_cap

\* len(self._allocation_map) == self._config.batch_size_cap
AllocationCapReached(st) == Cardinality(DOMAIN st.alloc) = cfg.batch_size_cap

\* len(new_num_tokens) * max(new_num_tokens) > self._config.max_tokens_in_batch
ExceedsTokenBudget(new_num_tokens) ==
    Len(new_num_tokens) * SeqMax(new_num_tokens) > MaxTokensInBatch

\* free(request_id): self._allocation_map.pop(request_id) raises KeyError
\* when the request holds no allocation
Free(st, id) ==
    IF id \notin DOMAIN st.alloc THEN [st EXCEPT !.err = "KeyError"]
    ELSE [st EXCEPT !.nblocks = @ - st.alloc[id],
                    !.alloc = [j \in DOMAIN @ \ {id} |-> @[j]]]

----------------------------------------------------------------------------
\* Fairness keys.

\* the key (counter, arrived_at), as one integer: arrived_at < KeyBase
KeyBase == MaxReq + 2
FairKey(vc, rq, id) == CounterOf(vc, rq[id].client_id) * KeyBase + rq[id].arrived_at

CounterKeys(vc, rq, ids) == [id \in ids |-> CounterOf(vc, rq[id].client_id)]
ArrivalKeys(rq, ids) == [id \in ids |-> rq[id].arrived_at]
FairKeys(vc, rq, ids) == [id \in ids |-> FairKey(vc, rq, id)]

\* the scheduling state a call of _get_next_batch starts from
StartState ==
    [queue |-> request_queue, preempted |-> preempted_requests,
     alloc |-> allocation_map, nblocks |-> num_allocated_blocks, req |-> req,
     requests |-> <<>>, num_tokens |-> <<>>, attempted |-> {},
     skipped |-> <<>>, running_prefills |-> <<>>, contains_prefill |-> FALSE,
     num_batch_tokens |-> 0, err |-> "none", log |-> <<>>]

Logged(st, e) == [st EXCEPT !.log = Append(@, e)]

\* (variant) the evicted request is put back in the preempted pool
EvictToPool(st, id, who) ==
    LET held == id \in DOMAIN st.alloc
        st1 == [st EXCEPT !.req[id] = RequestRestart(@)]
        st2 == Free(st1, id)
        st3 == Logged(st2, Ev(who, id, held, st1.req[id].num_processed_tokens))
    IN IF st2.err # "none" THEN st3
       ELSE [st3 EXCEPT !.preempted = Append(@, id)]

\* restart() the request, free its allocation, put it at the head of the
\* waiting queue (an exception in free leaves the queue as it was)
Evict(st, id, who) ==
    LET held == id \in DOMAIN st.alloc
        st1 == [st EXCEPT !.req[id] = RequestRestart(@)]
        st2 == Free(st1, id)
        st3 == Logged(st2, Ev(who, id, held, st1.req[id].num_processed_tokens))
    IN IF st2.err # "none" THEN st3
       ELSE [st3 EXCEPT !.queue = <<id>> \o @]

----------------------------------------------------------------------------
\* VTCReplicaScheduler._get_next_batch

\* BaseReplicaScheduler._get_request_next_num_tokens(request)
VTCNextNumTokens(r) ==
    IF r.is_prefill_complete THEN 1 ELSE r.num_prefill_tokens

\* (variant) the indices are tried in queue order, unsorted
VTCSortedIndicesFifo(vc, rq, q) == [i \in 1 .. Len(q) |-> i]

\* sorted(range(len(queue)), key = counter of queue[i]'s client)
VTCSortedIndices(vc, rq, q) ==
    SortByKey([i \in 1 .. Len(q) |-> i],
              [i \in 1 .. Len(q) |-> CounterOf(vc, rq[q[i]].client_id)])

\* whether id has the lowest (counter, arrived_at) key among the queued
\* requests that were not examined yet in this tick
IsFairest(vc, st, id) ==
    \A o \in SeqSet(st.queue) \ st.attempted :
        FairKey(vc, st.req, id) <= FairKey(vc, st.req, o)

\* (variant) every failed check skips the candidate
VTCGoesOnAlways(outcome) == TRUE

\* the loop control after each outcome of the loop body: break ends the loop,
\* continue (and an admission) goes on to the next index
VTCGoesOn(outcome) == outcome \in {"skip_alloc", "skip_tokens", "admit"}

\* what the loop body does with one examined request, and whether the loop goes on
VTCExamine(vc, st, id) ==
    LET fair == IsFairest(vc, st, id)
        st1 == [st EXCEPT !.attempted = @ \cup {id}]
        next_num_tokens == VTCNextNumTokens(st.req[id])
        new_num_tokens == Append(st.num_tokens, next_num_tokens)
    IN IF MicroBatchFull(st)
       THEN [go |-> VTCGoesOn("break_mbs"), st |-> Logged(st1, Ev("break_mbs", id, fair, 0))]
       ELSE IF AllocationCapReached(st)
       THEN [go |-> VTCGoesOn("break_cap"), st |-> Logged(st1, Ev("break_cap", id, fair, 0))]
       ELSE IF ~CanAllocateRequest(st, id)
       THEN [go |-> VTCGoesOn("skip_alloc"),
             st |-> Logged(st1, Ev("skip_alloc", id, fair, 0))]
       ELSE IF ExceedsTokenBudget(new_num_tokens)
       THEN [go |-> VTCGoesOn("skip_tokens"),
             st |-> Logged(st1, Ev("skip_tokens", id, fair, 0))]
       ELSE LET current_idx == CHOOSE i \in 1 .. Len(st.queue) : st.queue[i] = id
                st2 == [st1 EXCEPT !.queue = RemoveAt(@, current_idx)]
                st3 == AllocateRequest(st2, id)
                st4 == [st3 EXCEPT !.requests = Append(@, id),
                                   !.num_tokens = new_num_tokens,
                                   !.num_batch_tokens = @ + next_num_tokens]
            IN [go |-> VTCGoesOn("admit") /\ st3.err = "none",
                st |-> Logged(st4, Ev("admit", id, fair, next_num_tokens))]

\* for queue_idx in sorted_indices: ...
RECURSIVE VTCQueuePass(_, _, _)
VTCQueuePass(vc, idxs, st) ==
    IF idxs = <<>> THEN st
    ELSE LET queue_idx == Head(idxs) IN
         IF queue_idx > Len(st.queue) THEN VTCQueuePass(vc, Tail(idxs), st)
         ELSE IF st.queue[queue_idx] \in st.attempted
         THEN VTCQueuePass(vc, Tail(idxs), st)
         ELSE LET x == VTCExamine(vc, st, st.queue[queue_idx])
              IN IF x.go THEN VTCQueuePass(vc, Tail(idxs), x.st) ELSE x.st

\* the first index of the preempted list with the lowest counter
VTCSelectPreempted(vc, st) ==
    CHOOSE i \in 1 .. Len(st.preempted) :
        /\ \A j \in 1 .. Len(st.preempted) :
               CounterOf(vc, st.req[st.preempted[i]].client_id)
                   <= CounterOf(vc, st.req[st.preempted[j]].client_id)
        /\ \A j \in 1 .. (i - 1) :
               CounterOf(vc, st.req[st.preempted[j]].client_id)
                   > CounterOf(vc, st.req[st.preempted[i]].client_id)

\* whether the victim has the greatest (counter, arrived_at) key among the
\* preempted requests remaining and the request being resumed
IsLeastFavored(st, victim, resuming) ==
    \A o \in SeqSet(st.preempted) \cup {resuming} :
        FairKey(virtual_counters, st.req, o) <= FairKey(virtual_counters, st.req, victim)

\* victim_request = self._preempted_requests.pop(-1)
PopVictim(st) == [st EXCEPT !.preempted = SubSeq(@, 1, Len(@) - 1)]

\* while not can_allocate(request): evict a victim, or the request itself
\* [admit |-> whether the while loop ended without break]
RECURSIVE AllocateOrEvict(_, _)
AllocateOrEvict(st, id) ==
    IF st.err # "none" THEN [admit |-> FALSE, st |-> st]
    ELSE IF CanAllocateRequest(st, id) THEN [admit |-> TRUE, st |-> st]
    ELSE IF st.preempted # <<>>
    THEN LET victim == st.preempted[Len(st.preempted)]
             seen == Logged(st, Ev("victim", victim, IsLeastFavored(st, victim, id), id))
         IN AllocateOrEvict(Evict(PopVictim(seen), victim, "evict_victim"), id)
    ELSE [admit |-> FALSE, st |-> Evict(st, id, "evict_self")]

\* while self._preempted_requests: ...
RECURSIVE VTCPreemptedPass(_, _)
VTCPreemptedPass(vc, st) ==
    IF st.err # "none" \/ st.preempted = <<>> THEN st
    ELSE IF MicroBatchFull(st) THEN st
    ELSE LET selected_idx == VTCSelectPreempted(vc, st)
             id == st.preempted[selected_idx]
             st1 == Logged([st EXCEPT !.preempted = RemoveAt(@, selected_idx)],
                           Ev("resume", id,
                              \A o \in SeqSet(st.preempted) :
                                  FairKey(vc, st.req, id) <= FairKey(vc, st.req, o), 0))
             x == AllocateOrEvict(st1, id)
         IN IF ~x.admit THEN VTCPreemptedPass(vc, x.st)
            ELSE LET st2 == AllocateRequest(x.st, id)
                     next_num_tokens == VTCNextNumTokens(st2.req[id])
                 IN VTCPreemptedPass(vc,
                        Logged([st2 EXCEPT !.requests = Append(@, id),
                                           !.num_tokens = Append(@, next_num_tokens)],
                               Ev("admit_resumed", id, TRUE, next_num_tokens)))

\* the whole call: [st |-> final state, batch |-> the Batch returned or NoBatch]
VTCGetNextBatchResult ==
    LET vc == virtual_counters
        st1 == VTCQueuePass(vc, VTCSortedIndices(vc, req, request_queue), StartState)
    IN IF st1.err # "none" THEN [st |-> st1, batch |-> NoBatch]
       ELSE IF st1.requests # <<>>
       THEN [st |-> st1,
             batch |-> [requests |-> st1.requests, num_tokens |-> st1.num_tokens,
                        path |-> "waiting"]]
       ELSE LET st2 == [st1 EXCEPT !.preempted =
                            SortByKey(@, ArrivalKeys(st1.req, SeqSet(@)))]
                st3 == VTCPreemptedPass(vc, st2)
            IN IF st3.err # "none" \/ st3.requests = <<>>
               THEN [st |-> st3, batch |-> NoBatch]
               ELSE [st |-> st3,
                     batch |-> [requests |-> st3.requests, num_tokens |-> st3.num_tokens,
                                path |-> "preempted"]]

----------------------------------------------------------------------------
\* VTCSarathiReplicaScheduler._get_next_batch

\* SarathiReplicaScheduler._get_request_next_num_tokens(request, contains_prefill,
\* num_batch_tokens)
SarathiNextNumTokens(r, num_batch_tokens) ==
    IF r.is_prefill_complete THEN 1
    ELSE Max2(0, Min2(r.num_prefill_tokens - r.num_processed_tokens,
                      cfg.chunk_size - num_batch_tokens))

\* first loop: while self._preempted_requests: ...
RECURSIVE SarathiPreemptedPass(_, _)
SarathiPreemptedPass(vc, st) ==
    IF st.err # "none" \/ st.preempted = <<>> THEN st
    ELSE IF MicroBatchFull(st) THEN st
    ELSE LET id == Head(st.preempted)
             fair == \A o \in SeqSet(st.preempted) :
                         FairKey(vc, st.req, id) <= FairKey(vc, st.req, o)
             st1 == [st EXCEPT !.preempted = Tail(@)]
             next_num_tokens == SarathiNextNumTokens(st.req[id], st.num_batch_tokens)
         IN IF ~st.req[id].is_prefill_complete
            THEN SarathiPreemptedPass(vc,
                     Logged([st1 EXCEPT !.running_prefills = Append(@, id)],
                            Ev("running_prefill", id, fair, 0)))
            ELSE IF next_num_tokens = 0
            THEN SarathiPreemptedPass(vc,
                     Logged([st1 EXCEPT !.skipped = Append(@, id)],
                            Ev("skip_resume", id, fair, 0)))
            ELSE LET x == AllocateOrEvict(Logged(st1, Ev("resume", id, fair, 0)), id)
                 IN IF ~x.admit THEN SarathiPreemptedPass(vc, x.st)
                    ELSE LET st2 == AllocateRequest(x.st, id)
                         IN SarathiPreemptedPass(vc,
                                Logged([st2 EXCEPT
                                            !.num_batch_tokens = @ + next_num_tokens,
                                            !.requests = Append(@, id),
                                            !.num_tokens = Append(@, next_num_tokens)],
                                       Ev("admit_resumed", id, TRUE, next_num_tokens)))

\* _select_next_request(running_prefills): the candidates of running_prefills,
\* then of the waiting queue, stably sorted by (counter, arrived_at); the first
SarathiSelectNextRequest(vc, st) ==
    LET cands == [i \in 1 .. Len(st.running_prefills) |->
                      [idx |-> i, id |-> st.running_prefills[i], is_running |-> TRUE]]
                 \o [i \in 1 .. Len(st.queue) |->
                      [idx |-> i, id |-> st.queue[i], is_running |-> FALSE]]
        pos == SortByKey([i \in 1 .. Len(cands) |-> i],
                         [i \in 1 .. Len(cands) |-> FairKey(vc, st.req, cands[i].id)])
    IN cands[pos[1]]

\* second loop: while running_prefills or self._request_queue: ...
RECURSIVE SarathiAdmitPass(_, _)
SarathiAdmitPass(vc, st) ==
    IF st.err # "none" \/ (st.running_prefills = <<>> /\ st.queue = <<>>) THEN st
    ELSE IF AllocationCapReached(st)
    THEN Logged(st, Ev("break_cap", 0, TRUE, 0))
    ELSE IF MicroBatchFull(st)
    THEN Logged(st, Ev("break_mbs", 0, TRUE, 0))
    ELSE LET sel == SarathiSelectNextRequest(vc, st)
             id == sel.id
             st1 == IF sel.is_running
                    THEN [st EXCEPT !.running_prefills = RemoveAt(@, sel.idx)]
                    ELSE [st EXCEPT !.queue = RemoveAt(@, sel.idx)]
             next_num_tokens == SarathiNextNumTokens(st.req[id], st.num_batch_tokens)
         IN IF ~sel.is_running /\ ~CanAllocateRequest(st1, id)
            THEN Logged([st1 EXCEPT !.queue = <<id>> \o @],
                        Ev("break_alloc", id, FALSE, 0))
            ELSE IF next_num_tokens = 0
            THEN SarathiAdmitPass(vc,
                     Logged([st1 EXCEPT !.skipped = Append(@, id)],
                            Ev("skip_chunk", id, sel.is_running, 0)))
            ELSE LET st2 == IF sel.is_running THEN st1 ELSE AllocateRequest(st1, id)
                 IN SarathiAdmitPass(vc,
                        Logged([st2 EXCEPT
                                    !.contains_prefill =
                                        @ \/ ~st.req[id].is_prefill_complete,
                                    !.num_batch_tokens = @ + next_num_tokens,
                                    !.requests = Append(@, id),
                                    !.num_tokens = Append(@, next_num_tokens)],
                               Ev(IF sel.is_running THEN "admit_running" ELSE "admit",
                                  id, sel.is_running, next_num_tokens)))

\* (variant) the skipped requests are left out of the merge
SarathiMergeDropsSkipped(vc, st) ==
    LET merged == st.running_prefills \o st.preempted
    IN SortByKey(merged, FairKeys(vc, st.req, SeqSet(merged)))

\* skipped + running_prefills + preempted, sorted by (counter, arrived_at)
SarathiMergePreempted(vc, st) ==
    LET merged == st.skipped \o st.running_prefills \o st.preempted
    IN SortByKey(merged, FairKeys(vc, st.req, SeqSet(merged)))

\* the whole call: [st |-> final state, batch |-> the Batch returned or NoBatch]
SarathiGetNextBatchResult ==
    LET vc == virtual_counters
        st1 == SarathiPreemptedPass(vc, StartState)
        st2 == SarathiAdmitPass(vc, st1)
    IN IF st2.err # "none" THEN [st |-> st2, batch |-> NoBatch]
       ELSE LET st3 == [st2 EXCEPT !.preempted = SarathiMergePreempted(vc, st2),
                                   !.skipped = <<>>, !.running_prefills = <<>>]
            IN IF st3.requests = <<>> THEN [st |-> st3, batch |-> NoBatch]
               ELSE [st |-> st3,
                     batch |-> [requests |-> st3.requests, num_tokens |-> st3.num_tokens,
                                path |-> "chunked"]]

----------------------------------------------------------------------------
\* The entry points.

Init ==
    /\ cfg \in Configs
    /\ req = <<>>
    /\ request_queue = <<>>
    /\ preempted_requests = <<>>
    /\ allocation_map = <<>>
    /\ num_allocated_blocks = 0
    /\ virtual_counters = <<>>
    /\ running = <<>>
    /\ err = "none"
    /\ last = [op |-> "init", client |-> 0, tracked |-> FALSE, batch |-> NoBatch,
               log |-> <<>>]

LastArrival == IF req = <<>> THEN 0 ELSE req[Len(req)].arrived_at

\* a new Request as the request generator creates it
NewRequest(c, t, p, d) ==
    [client_id |-> c, arrived_at |-> t, num_prefill_tokens |-> p,
     num_decode_tokens |-> d, num_processed_tokens |-> 0,
     is_prefill_complete |-> FALSE, completed |-> FALSE]

\* add_request(request): counter on arrival, then the base class appends to the queue
AddRequest ==
    /\ err = "none"
    /\ Len(req) < MaxReq
    /\ \E c \in Clients, p \in 1 .. MaxPrefill, d \in 1 .. MaxDecode :
          /\ req' = Append(req, NewRequest(c, LastArrival + 1, p, d))
          /\ virtual_counters' = UpdateCounterOnArrival(virtual_counters, c)
          /\ request_queue' = Append(request_queue, Len(req) + 1)
          /\ last' = [op |-> "add_request", client |-> c,
                      tracked |-> c \in DOMAIN virtual_counters, batch |-> NoBatch,
                      log |-> <<>>]
    /\ UNCHANGED <<cfg, preempted_requests, allocation_map, num_allocated_blocks,
                   running, err>>

\* on_schedule calls _get_next_batch while fewer than num_stages batches run
GetNextBatchWith(res) ==
    /\ err = "none"
    /\ Len(running) < cfg.num_stages
    /\ req' = res.st.req
    /\ request_queue' = res.st.queue
    /\ preempted_requests' = res.st.preempted
    /\ allocation_map' = res.st.alloc
    /\ num_allocated_blocks' = res.st.nblocks
    /\ running' = IF res.batch = NoBatch THEN running ELSE Append(running, res.batch)
    /\ err' = res.st.err
    /\ last' = [op |-> "get_next_batch", client |-> 0, tracked |-> FALSE,
                batch |-> res.batch, log |-> res.st.log]
    /\ UNCHANGED <<cfg, virtual_counters>>

VTCGetNextBatch ==
    /\ cfg.sched = "vtc"
    /\ GetNextBatchWith(VTCGetNextBatchResult)

SarathiGetNextBatch ==
    /\ cfg.sched = "sarathi"
    /\ GetNextBatchWith(SarathiGetNextBatchResult)

\* Batch.on_batch_end: every request advances by its tokens of the round
RECURSIVE BatchEndRequests(_, _, _)
BatchEndRequests(rq, ids, toks) ==
    IF ids = <<>> THEN rq
    ELSE BatchEndRequests([rq EXCEPT ![Head(ids)] = RequestOnBatchEnd(@, Head(toks))],
                          Tail(ids), Tail(toks))

\* the base on_batch_end: free the completed requests, append the others to
\* the preempted list
RECURSIVE ReleaseOrPreempt(_, _)
ReleaseOrPreempt(st, ids) ==
    IF ids = <<>> \/ st.err # "none" THEN st
    ELSE IF st.req[Head(ids)].completed
    THEN ReleaseOrPreempt(Free(st, Head(ids)), Tail(ids))
    ELSE ReleaseOrPreempt([st EXCEPT !.preempted = Append(@, Head(ids))], Tail(ids))

\* the batch-end event: Batch.on_batch_end, then the scheduler's on_batch_end
OnBatchEnd ==
    /\ err = "none"
    /\ \E i \in 1 .. Len(running) :
          LET b == running[i]
              rq == BatchEndRequests(req, b.requests, b.num_tokens)
              vc == UpdateCounterOnBatchCompletion(virtual_counters, rq, b)
              st == ReleaseOrPreempt([StartState EXCEPT !.req = rq], b.requests)
          IN /\ req' = rq
             /\ virtual_counters' = vc
             /\ running' = RemoveAt(running, i)
             /\ preempted_requests' = st.preempted
             /\ allocation_map' = st.alloc
             /\ num_allocated_blocks' = st.nblocks
             /\ err' = st.err
             /\ last' = [op |-> "on_batch_end", client |-> 0, tracked |-> FALSE,
                         batch |-> b, log |-> <<>>]
    /\ UNCHANGED <<cfg, request_queue>>

Next == AddRequest \/ VTCGetNextBatch \/ SarathiGetNextBatch \/ OnBatchEnd

Spec == Init /\ [][Next]_vars

----------------------------------------------------------------------------
\* Properties.

LastLog == last.log
HasEv(e) == \E i \in 1 .. Len(LastLog) : LastLog[i].ev = e
Ticked == last.op = "get_next_batch"
BatchWidth(b) == Len(b.requests) * SeqMax(b.num_tokens)

\* C1: every batch returned by get_next_batch, of either scheduler
\* and on either path, has count(requests) * max(tokens) <= max_tokens_in_batch.
C1_EveryBatchInBudget ==
    Ticked => BatchWidth(last.batch) <= MaxTokensInBatch

\* C2: every batch returned by get_next_batch holds at most
\* max_micro_batch_size requests.
C2_BatchSizeBounded ==
    Ticked => Len(last.batch.requests) <= max_micro_batch_size

C2_Witness ==
    /\ Ticked
    /\ last.batch.path = "preempted"
    /\ Len(last.batch.requests) = max_micro_batch_size
    /\ preempted_requests # <<>>

C4_CountersMonotone ==
    [][\A c \in DOMAIN virtual_counters :
           /\ c \in DOMAIN virtual_counters'
           /\ virtual_counters'[c] >= virtual_counters[c]]_vars

C4_Witness ==
    /\ last.op = "add_request"
    /\ last.tracked
    /\ \E c \in DOMAIN virtual_counters :
           virtual_counters[last.client] > virtual_counters[c]

\* C5: add_request gives an untracked client the minimum of the existing
\* counters (0 when there is none) and changes no counter of a tracked client.
C5_ArrivalCounter ==
    [][last'.op = "add_request" =>
          LET c == last'.client
              old == virtual_counters
              new == virtual_counters'
          IN IF c \in DOMAIN old THEN new = old
             ELSE /\ DOMAIN new = DOMAIN old \cup {c}
                  /\ \A d \in DOMAIN old : new[d] = old[d]
                  /\ IF DOMAIN old = {} THEN new[c] = 0
                     ELSE /\ \E d \in DOMAIN old : new[c] = old[d]
                          /\ \A d \in DOMAIN old : new[c] <= old[d]]_vars

C5_Witness ==
    /\ last.op = "add_request"
    /\ ~last.tracked
    /\ virtual_counters[last.client] > 0

\* C6: an evicted request held an allocation when it was freed, and its
\* processed-token progress is 0 when it is put back in the waiting queue.
C6_EvictionFreesHeldAllocation ==
    \A i \in 1 .. Len(LastLog) :
        LastLog[i].ev \in {"evict_victim", "evict_self"} =>
            /\ LastLog[i].flag
            /\ LastLog[i].n = 0
            /\ err = "none"

\* C8 (as stated): once a check fails for a waiting request, no waiting
\* request is admitted later in the same tick.
FailedCheck == {"skip_alloc", "skip_tokens", "break_alloc", "break_mbs", "break_cap"}

C8_StopOnFirstInfeasible ==
    \A i, j \in 1 .. Len(LastLog) :
        (i < j /\ LastLog[i].ev \in FailedCheck) => LastLog[j].ev # "admit"

\* C8 (amended): batch formation from the waiting queue ends at once when the
\* request-count cap or the allocation cap is reached and, in the chunked
\* scheduler, when the selected waiting request cannot be allocated: no
\* waiting request or running prefill is examined after that in the tick.
WaitingEvent == FailedCheck \cup {"admit", "admit_running", "skip_chunk"}

C8_CapsEndFormation ==
    \A i, j \in 1 .. Len(LastLog) :
        (i < j /\ LastLog[i].ev \in {"break_mbs", "break_cap", "break_alloc"})
            => LastLog[j].ev \notin WaitingEvent

C8_Witness ==
    /\ Ticked
    /\ cfg.sched = "vtc"
    /\ \E i, j \in 1 .. Len(LastLog) :
           /\ i < j
           /\ LastLog[i].ev = "admit"
           /\ LastLog[j].ev \in {"break_mbs", "break_cap"}

\* C9: on_batch_end adds, for every client, the cost of its requests of the
\* batch divided by the client's damping factor.
RECURSIVE DampedService(_, _, _, _)
DampedService(rq, ids, toks, c) ==
    IF ids = <<>> THEN 0
    ELSE (IF rq[Head(ids)].client_id # c THEN 0
          ELSE ((IF cfg.sched = "vtc" THEN VTCCost(rq[Head(ids)], Head(toks))
                 ELSE SarathiCost(rq[Head(ids)], Head(toks))) * CounterScale)
               \div Damping(c))
         + DampedService(rq, Tail(ids), Tail(toks), c)

C9_ChargeIsDamped ==
    [][last'.op = "on_batch_end" =>
          \A c \in Clients :
              CounterOf(virtual_counters', c) =
                  CounterOf(virtual_counters, c)
                  + DampedService(req', last'.batch.requests, last'.batch.num_tokens, c)]_vars

\* C10: a tick that admits nothing, or in which a request could not be
\* allocated with no victim left, ends without an exception.
C10_NoRaiseWhenNothingFits ==
    (Ticked /\ (last.batch = NoBatch \/ HasEv("evict_self"))) => err = "none"

\* the sequence s without its element x
Without(s, x) == SelectSeq(s, LAMBDA y : y # x)

\* a waiting request is ready when the allocation controller can allocate it
\* and, in the non-chunked scheduler, its next token count is within the budget
Ready(id) ==
    /\ CanAllocateRequest(StartState, id)
    /\ cfg.sched = "vtc" => VTCNextNumTokens(req[id]) <= MaxTokensInBatch

C12_VictimIsLeastFavored ==
    \A i \in 1 .. Len(LastLog) : LastLog[i].ev = "victim" => LastLog[i].flag

\* C14: in the waiting-queue pass of the non-chunked scheduler, every request
\* examined has, when it is examined, the lowest (counter, arrived_at) key among
\* the queued requests not yet examined in the tick.
VTCExamined == {"admit", "skip_alloc", "skip_tokens", "break_mbs", "break_cap"}

C14_ExaminedInFairnessOrder ==
    (Ticked /\ cfg.sched = "vtc") =>
        \A i \in 1 .. Len(LastLog) : LastLog[i].ev \in VTCExamined => LastLog[i].flag

\* C15: every preempted request popped to be resumed has, when it is popped,
\* the lowest (counter, arrived_at) key of the preempted pool.
C15_ResumedIsMostFavored ==
    \A i \in 1 .. Len(LastLog) : LastLog[i].ev = "resume" => LastLog[i].flag

\* the token-accounting split of one (request, num_tokens) pair of a completed batch
BoundaryCost(r, n) ==
    LET tokens_before == r.num_processed_tokens - n
        p == Min2(Max2(r.num_prefill_tokens - tokens_before, 0), n)
    IN PrefillTokenServiceCost(p) + DecodeTokenServiceCost * (n - p)

\* the divisor each scheduler applies to a cost before adding it to the counter
AppliedDamping(c) == IF cfg.sched = "sarathi" THEN Damping(c) ELSE 1

RECURSIVE BoundaryService(_, _, _, _)
BoundaryService(rq, ids, toks, c) ==
    IF ids = <<>> THEN 0
    ELSE (IF rq[Head(ids)].client_id # c THEN 0
          ELSE (BoundaryCost(rq[Head(ids)], Head(toks)) * CounterScale)
                   \div AppliedDamping(c))
         + BoundaryService(rq, Tail(ids), Tail(toks), c)

\* C16: on_batch_end charges every request of the batch
\* prefill_token_cost(p) + decode_token_cost() * (num_tokens - p), with
\* p = min(max(num_prefill_tokens - tokens_before, 0), num_tokens) and
\* tokens_before = num_processed_tokens - num_tokens, in both schedulers.
C16_BoundaryAccurateCost ==
    [][last'.op = "on_batch_end" =>
          \A c \in Clients :
              CounterOf(virtual_counters', c) =
                  CounterOf(virtual_counters, c)
                  + BoundaryService(req', last'.batch.requests, last'.batch.num_tokens, c)]_vars

\* the iterations of the resume loop and of the inner allocate-or-evict loop
\* that took a request out of the preempted pool
PoolPop == {"resume", "running_prefill", "skip_resume", "victim"}

RECURSIVE CountEv(_, _)
CountEv(log, evs) ==
    IF log = <<>> THEN 0
    ELSE (IF Head(log).ev \in evs THEN 1 ELSE 0) + CountEv(Tail(log), evs)

\* C17: a tick's preemption loops end after at most as many iterations as the
\* preempted pool held requests when the tick began: every iteration of the
\* resume loop and of the inner allocate-or-evict loop takes one request out
\* of the pool, and the only iteration that takes none is the one that evicts
\* the resuming request itself and leaves the inner loop.
C17_PreemptionLoopBounded ==
    [][last'.op = "get_next_batch" =>
          /\ CountEv(last'.log, PoolPop) <= Len(preempted_requests)
          /\ CountEv(last'.log, {"evict_self"}) <= CountEv(last'.log, {"resume"})]_vars

C17_Witness ==
    /\ Ticked
    /\ HasEv("victim")
    /\ HasEv("admit_resumed")
    /\ CountEv(LastLog, PoolPop) >= 2

\* C18: a batch of the chunked scheduler holds at most one request whose
\* prefill is not complete.
C18_AtMostOneChunkingPrefill ==
    (Ticked /\ cfg.sched = "sarathi") =>
        Cardinality({ i \in 1 .. Len(last.batch.requests) :
                        ~req[last.batch.requests[i]].is_prefill_complete }) <= 1

\* C19: in the chunked scheduler a request whose next chunk size is zero is
\* not in the batch and is, at the end of the tick, in the preempted pool, which
\* is sorted ascending by (counter, arrived_at).
C19_ZeroChunkIsDeferred ==
    (Ticked /\ cfg.sched = "sarathi") =>
        \A i \in 1 .. Len(LastLog) :
            LastLog[i].ev \in {"skip_chunk", "skip_resume"} =>
                /\ LastLog[i].id \notin SeqSet(last.batch.requests)
                /\ LastLog[i].id \in SeqSet(preempted_requests)
                /\ LastLog[i].id \notin SeqSet(request_queue)
                /\ \A j, k \in 1 .. Len(preempted_requests) :
                       j < k => FairKey(virtual_counters, req, preempted_requests[j])
                                    <= FairKey(virtual_counters, req, preempted_requests[k])

\* a tick deferred a request and the pool holds a request of each client
C19_Witness ==
    /\ Ticked
    /\ HasEv("skip_chunk")
    /\ last.batch.requests # <<>>
    /\ \E j, k \in 1 .. Len(preempted_requests) :
           req[preempted_requests[j]].client_id # req[preempted_requests[k]].client_id

\* C20: every request of a returned batch, and every request of the preempted
\* pool, holds an allocation.
C20_BatchAndPoolHoldAllocation ==
    /\ Ticked => \A i \in 1 .. Len(last.batch.requests) :
                     last.batch.requests[i] \in DOMAIN allocation_map
    /\ \A i \in 1 .. Len(preempted_requests) :
           preempted_requests[i] \in DOMAIN allocation_map

\* how many times the request id occurs in the sequence s
Occurrences(s, id) == Cardinality({ i \in 1 .. Len(s) : s[i] = id })

RECURSIVE RunningOccurrences(_, _)
RunningOccurrences(batches, id) ==
    IF batches = <<>> THEN 0
    ELSE Occurrences(Head(batches).requests, id) + RunningOccurrences(Tail(batches), id)

\* the number of places (waiting queue, preempted pool, batches returned and
\* not yet ended) that hold the request, counted with multiplicity
Places(id) ==
    Occurrences(request_queue, id) + Occurrences(preempted_requests, id)
        + RunningOccurrences(running, id)

\* C21: every request that was added and has not completed is in exactly one
\* of the waiting queue, the preempted pool and the batches returned and not
\* yet ended, and occurs there once.
C21_RequestConservation ==
    \A id \in 1 .. Len(req) : ~req[id].completed => Places(id) = 1

====
